---- MODULE Spec2Model ----
(***************************************************************************)
(* Model of Backtest_Engine (src/engine.py): the validation checks, run()  *)
(* and the returns accessor, over small labelled tables.                   *)
(*                                                                         *)
(* A table is [index, columns, values]: the date labels, the asset labels  *)
(* and one row of cells per date.  A cell is an extended rational <<n, d>> *)
(* with d >= 0: d > 0 is the number n/d in lowest terms, <<1, 0>> and      *)
(* <<-1, 0>> are the two float infinities and <<0, 0>> is NaN.  Rounding   *)
(* of finite float arithmetic is abstracted to exact arithmetic.           *)
(***************************************************************************)
EXTENDS Integers, Sequences, FiniteSets

VARIABLES
    prices,         \* self.prices
    weights,        \* self.weights
    contributions,  \* self.contributions: None or Some(table)
    lastCall,       \* the method called last
    raised,         \* the exception the last call raised, NoError if none
    checks,         \* the checks the last call performed, in order
    out,            \* the series the last call returned, None if none
    history         \* how the run() calls so far ended

vars == <<prices, weights, contributions, lastCall, raised, checks, out, history>>

\* Largest number of dates of an input table.
MaxDates == 3

-----------------------------------------------------------------------------
(* Extended rational arithmetic, as the float operations behave.           *)

Abs(n) == IF n < 0 THEN -n ELSE n

Sign(n) == IF n < 0 THEN -1 ELSE IF n > 0 THEN 1 ELSE 0

RECURSIVE GCD(_, _)
GCD(a, b) == IF b = 0 THEN a ELSE GCD(b, a % b)

Norm(n, d) ==
    IF d = 0 THEN <<Sign(n), 0>>
    ELSE LET g == GCD(Abs(n), Abs(d))
         IN  <<Sign(d) * (n \div g), Abs(d) \div g>>

NaN == <<0, 0>>
Inf == <<1, 0>>
Zero == <<0, 1>>
One == <<1, 1>>
Q(n, d) == Norm(n, d)

IsNaN(a) == a = NaN
IsInf(a) == a[2] = 0 /\ a[1] # 0

Neg(a) == <<-a[1], a[2]>>

Add(a, b) ==
    IF IsNaN(a) \/ IsNaN(b) THEN NaN
    ELSE IF IsInf(a) /\ IsInf(b) THEN (IF a = b THEN a ELSE NaN)
    ELSE IF IsInf(a) THEN a
    ELSE IF IsInf(b) THEN b
    ELSE LET g == GCD(a[2], b[2])
         IN  Norm(a[1] * (b[2] \div g) + b[1] * (a[2] \div g), (a[2] \div g) * b[2])

Sub(a, b) == Add(a, Neg(b))

Mul(a, b) == IF IsNaN(a) \/ IsNaN(b) THEN NaN ELSE Norm(a[1] * b[1], a[2] * b[2])

Div(a, b) == IF IsNaN(a) \/ IsNaN(b) THEN NaN ELSE Norm(a[1] * b[2], a[2] * b[1])

\* a > b; any comparison with NaN is false.
Gt(a, b) ==
    /\ ~IsNaN(a) /\ ~IsNaN(b)
    /\ a # b
    /\ IF IsInf(a) THEN a = Inf
       ELSE IF IsInf(b) THEN b = Neg(Inf)
       ELSE LET g == GCD(a[2], b[2])
            IN  a[1] * (b[2] \div g) > b[1] * (a[2] \div g)

Lt(a, b) == Gt(b, a)

Le(a, b) == ~IsNaN(a) /\ ~IsNaN(b) /\ ~Gt(a, b)

-----------------------------------------------------------------------------
(* Tables and the pandas operations the engine uses.                       *)

Table(idx, cols, vals) == [index |-> idx, columns |-> cols, values |-> vals]

NRows(data) == Len(data.index)
NCols(data) == Len(data.columns)

Cells(data) == {<<i, j>> : i \in 1..NRows(data), j \in 1..NCols(data)}

\* Index.is_monotonic_increasing: each label >= the one before it.
IsMonotonicIncreasing(idx) == \A i \in 1..(Len(idx) - 1) : idx[i] <= idx[i + 1]

\* Index.is_unique: no label occurs twice.
IsUnique(idx) == Cardinality({idx[i] : i \in 1..Len(idx)}) = Len(idx)

\* DataFrame.isna().any().any()
AnyNaN(data) == \E c \in Cells(data) : IsNaN(data.values[c[1]][c[2]])

RECURSIVE SumSeq(_, _)
\* Sum of s[1..n] skipping NaN (sum with skipna), starting from 0.
SumSeq(s, n) ==
    IF n = 0 THEN Zero
    ELSE IF IsNaN(s[n]) THEN SumSeq(s, n - 1)
    ELSE Add(SumSeq(s, n - 1), s[n])

\* Variant: only the first asset is counted.
SumFirstColumn(data) ==
    [index |-> data.index,
     values |-> [i \in 1..NRows(data) |->
                    IF NCols(data) = 0 THEN Zero ELSE data.values[i][1]]]

\* DataFrame.sum(axis=1): one value per row, labelled by the index.
SumAxis1(data) ==
    [index |-> data.index,
     values |-> [i \in 1..NRows(data) |-> SumSeq(data.values[i], NCols(data))]]

\* DataFrame.shift(1): row i takes row i-1, the first row is NaN.
Shift1(data) ==
    Table(data.index, data.columns,
          [i \in 1..NRows(data) |->
              [j \in 1..NCols(data) |->
                  IF i = 1 THEN NaN ELSE data.values[i - 1][j]]])

\* DataFrame.pct_change(): data / data.shift(1) - 1.
PctChange(data) ==
    LET prev == Shift1(data)
    IN  Table(data.index, data.columns,
              [i \in 1..NRows(data) |->
                  [j \in 1..NCols(data) |->
                      Sub(Div(data.values[i][j], prev.values[i][j]), One)]])

\* a * b for two frames with equal index and columns: cell by cell.
MulFrames(a, b) ==
    Table(a.index, a.columns,
          [i \in 1..NRows(a) |->
              [j \in 1..NCols(a) |-> Mul(a.values[i][j], b.values[i][j])]])

RECURSIVE KeepRows(_, _)
\* The positions i <= n of the rows of data without a NaN, in order.
KeepRows(data, n) ==
    IF n = 0 THEN <<>>
    ELSE IF \E j \in 1..NCols(data) : IsNaN(data.values[n][j])
         THEN KeepRows(data, n - 1)
         ELSE Append(KeepRows(data, n - 1), n)

\* Variant: no row is dropped.
DropNaNever(data) == data

\* DataFrame.dropna(): drop every row holding at least one NaN.
DropNa(data) ==
    LET keep == KeepRows(data, NRows(data))
    IN  Table([k \in 1..Len(keep) |-> data.index[keep[k]]],
              data.columns,
              [k \in 1..Len(keep) |-> data.values[keep[k]]])

-----------------------------------------------------------------------------
(* Exceptions.  The code raises ValueError / RuntimeError with one message *)
(* per violated invariant; kind names the invariant, name the table.       *)

Err(kind, name) == [kind |-> kind, name |-> name]
NoError == Err("none", "")

None == <<>>
Some(x) == <<x>>

\* Numerical tolerance used for the exposure comparison.
TOL == Q(1, 1000000)

\* Variant: only the ordering of the index is checked.
_check_clean_index_order_only(data, name) ==
    IF ~IsMonotonicIncreasing(data.index) THEN Err("IndexOrderError", name)
    ELSE NoError

_check_clean_index(data, name) ==
    IF ~IsMonotonicIncreasing(data.index) THEN Err("IndexOrderError", name)
    ELSE IF ~IsUnique(data.index) THEN Err("IndexUniquenessError", name)
    ELSE NoError

_check_no_nan(data, name) ==
    IF AnyNaN(data) THEN Err("MissingValueError", name) ELSE NoError

\* Variant: the comparison ignores the tolerance.
_check_net_exposure_no_tol(w) ==
    IF \E i \in 1..NRows(w) : Gt(SumAxis1(w).values[i], One)
    THEN Err("ExposureLimitError", "Weights")
    ELSE NoError

_check_net_exposure(w) ==
    IF \E i \in 1..NRows(w) : Gt(SumAxis1(w).values[i], Add(One, TOL))
    THEN Err("ExposureLimitError", "Weights")
    ELSE NoError

_check_not_negative(data, name) ==
    IF \E c \in Cells(data) : Lt(data.values[c[1]][c[2]], Zero)
    THEN Err("InvalidWeightError", name)
    ELSE NoError

\* Variant: a price of exactly zero is accepted.
_check_positive_allows_zero(data, name) ==
    IF \E c \in Cells(data) : Lt(data.values[c[1]][c[2]], Zero)
    THEN Err("InvalidPriceError", name)
    ELSE NoError

_check_positive(data, name) ==
    IF \E c \in Cells(data) : Le(data.values[c[1]][c[2]], Zero)
    THEN Err("InvalidPriceError", name)
    ELSE NoError

\* The first error of a sequence of check results, NoError when none failed.
RECURSIVE FirstError(_)
FirstError(errs) ==
    IF errs = <<>> THEN NoError
    ELSE IF Head(errs) # NoError THEN Head(errs)
    ELSE FirstError(Tail(errs))

\* How many checks of the sequence ran: up to and including the first failure.
RECURSIVE Ran(_)
Ran(errs) ==
    IF errs = <<>> THEN 0
    ELSE IF Head(errs) # NoError THEN 1
    ELSE 1 + Ran(Tail(errs))

validate_weights_steps(w) ==
    << _check_no_nan(w, "Weights"),
       _check_clean_index(w, "Weights"),
       _check_not_negative(w, "Weights"),
       _check_net_exposure(w) >>

validate_weights(w) == FirstError(validate_weights_steps(w))

validate_prices_steps(p) ==
    << _check_no_nan(p, "Prices"),
       _check_clean_index(p, "Prices"),
       _check_positive(p, "Prices") >>

validate_prices(p) == FirstError(validate_prices_steps(p))

Labels(s) == {s[i] : i \in 1..Len(s)}

\* Variant: the columns are compared as sets, whatever their order.
validate_match_data_unordered(p, w) ==
    IF w.index # p.index THEN Err("AlignmentError", "index")
    ELSE IF Labels(w.columns) # Labels(p.columns) THEN Err("AlignmentError", "columns")
    ELSE NoError

validate_match_data(p, w) ==
    IF w.index # p.index THEN Err("AlignmentError", "index")
    ELSE IF w.columns # p.columns THEN Err("AlignmentError", "columns")
    ELSE NoError

-----------------------------------------------------------------------------
(* The engine: run() and the derived returns accessor.                     *)

\* Variant: the weights are validated before the prices.
run_steps_weights_first(p, w) ==
    validate_weights_steps(w) \o validate_prices_steps(p)
        \o << validate_match_data(p, w) >>

\* Every check of run(), in the order the code performs them.
run_steps(p, w) ==
    validate_prices_steps(p) \o validate_weights_steps(w)
        \o << validate_match_data(p, w) >>

CheckNames ==
    << "Prices.no_nan", "Prices.clean_index", "Prices.positive",
       "Weights.no_nan", "Weights.clean_index", "Weights.not_negative",
       "Weights.net_exposure", "match_data" >>

\* Variant: the returns of a date are paired with the weights of that date.
ComputeContributionsSameDay(p, w) == DropNa(MulFrames(PctChange(p), w))

\* asset_returns * weights.shift(1), then dropna().
ComputeContributions(p, w) == DropNa(MulFrames(PctChange(p), Shift1(w)))

\* Variant: the slot is reset to an empty frame before validation.
RunResetsSlot ==
    LET errs == run_steps(prices, weights)
        e == FirstError(errs)
    IN  /\ lastCall' = "run"
        /\ raised' = e
        /\ checks' = SubSeq(CheckNames, 1, Ran(errs))
        /\ contributions' = IF e = NoError
                            THEN Some(ComputeContributions(prices, weights))
                            ELSE Some(Table(<<>>, <<>>, <<>>))
        /\ out' = None
        /\ history' = IF e # NoError
                      THEN (IF history = "fresh" THEN "failed" ELSE history)
                      ELSE (IF history \in {"succeeded", "rerun"} THEN "rerun"
                            ELSE "succeeded")
        /\ UNCHANGED <<prices, weights>>

Run ==
    LET errs == run_steps(prices, weights)
        e == FirstError(errs)
    IN  /\ lastCall' = "run"
        /\ raised' = e
        /\ checks' = SubSeq(CheckNames, 1, Ran(errs))
        /\ contributions' = IF e = NoError
                            THEN Some(ComputeContributions(prices, weights))
                            ELSE contributions
        /\ out' = None
        /\ history' = IF e # NoError
                      THEN (IF history = "fresh" THEN "failed" ELSE history)
                      ELSE (IF history \in {"succeeded", "rerun"} THEN "rerun"
                            ELSE "succeeded")
        /\ UNCHANGED <<prices, weights>>

\* Variant: an engine without a result yields an empty series.
ReadReturnsDefault ==
    /\ lastCall' = "returns"
    /\ checks' = <<>>
    /\ raised' = NoError
    /\ out' = IF contributions = None
              THEN Some([index |-> <<>>, values |-> <<>>])
              ELSE Some(SumAxis1(contributions[1]))
    /\ UNCHANGED <<prices, weights, contributions, history>>

ReadReturns ==
    /\ lastCall' = "returns"
    /\ checks' = <<>>
    /\ IF contributions = None
       THEN /\ raised' = Err("EngineStateError", "contributions")
            /\ out' = None
       ELSE /\ raised' = NoError
            /\ out' = Some(SumAxis1(contributions[1]))
    /\ UNCHANGED <<prices, weights, contributions, history>>

ValidatePrices ==
    /\ lastCall' = "validate_prices"
    /\ raised' = validate_prices(prices)
    /\ checks' = SubSeq(CheckNames, 1, Ran(validate_prices_steps(prices)))
    /\ out' = None
    /\ UNCHANGED <<prices, weights, contributions, history>>

ValidateWeights ==
    /\ lastCall' = "validate_weights"
    /\ raised' = validate_weights(weights)
    /\ checks' = SubSeq(CheckNames, 4, 3 + Ran(validate_weights_steps(weights)))
    /\ out' = None
    /\ UNCHANGED <<prices, weights, contributions, history>>

ValidateMatchData ==
    /\ lastCall' = "validate_match_data"
    /\ raised' = validate_match_data(prices, weights)
    /\ checks' = << "match_data" >>
    /\ out' = None
    /\ UNCHANGED <<prices, weights, contributions, history>>

\* _check_clean_index called on one of the two tables.
CheckCleanIndex(name) ==
    /\ lastCall' = "check_clean_index"
    /\ raised' = _check_clean_index(IF name = "Prices" THEN prices ELSE weights, name)
    /\ checks' = << name \o ".clean_index" >>
    /\ out' = None
    /\ UNCHANGED <<prices, weights, contributions, history>>

-----------------------------------------------------------------------------
(* Inputs.  __init__ stores the two tables and sets contributions to None. *)

Two == Q(2, 1)

BaseColumns == { <<>>, <<"A">>, <<"A", "B">> }

Dates(nd) == [i \in 1..nd |-> i]

Constructed(p, w) ==
    /\ prices = p
    /\ weights = w
    /\ contributions = None
    /\ lastCall = "init"
    /\ raised = NoError
    /\ checks = <<>>
    /\ out = None
    /\ history = "fresh"

RowSumAtMostOne(row) == Le(SumSeq(row, Len(row)), One)

\* Well-formed, aligned inputs of every shape, the empty ones included.
InitAligned ==
    \E nd \in 0..MaxDates, cols \in BaseColumns :
        \E pv \in [1..nd -> [1..Len(cols) -> {One, Two}]],
           wv \in [1..nd -> {r \in [1..Len(cols) -> {Zero, One}] : RowSumAtMostOne(r)}] :
            Constructed(Table(Dates(nd), cols, pv), Table(Dates(nd), cols, wv))

\* vals with cell (r, c) replaced by v; vals itself when there is no such cell.
SetCell(vals, r, c, v) ==
    IF r \in 1..Len(vals) /\ c \in 1..Len(vals[r])
    THEN [vals EXCEPT ![r][c] = v]
    ELSE vals

BasePriceValues(nd, nc) ==
    [i \in 1..nd |-> [j \in 1..nc |-> IF (i + j) % 2 = 0 THEN One ELSE Two]]

Half == Q(1, 2)

\* Odd dates split the capital evenly (one half per asset), even dates put
\* all of it on the first asset.
BaseWeightValues(nd, nc) ==
    [i \in 1..nd |->
        [j \in 1..nc |-> IF i % 2 = 1 THEN Half ELSE IF j = 1 THEN One ELSE Zero]]

IndexModes == {"ok", "rev", "dup", "revdup", "shift", "short"}

\* An index of nd dates: sorted, reversed, with a repeated date, or moved.
MakeIndex(nd, mode) ==
    CASE mode = "rev" -> [i \in 1..nd |-> nd + 1 - i]
      [] mode = "dup" -> [i \in 1..nd |-> IF i = nd /\ nd > 1 THEN nd - 1 ELSE i]
      [] mode = "revdup" -> [i \in 1..nd |-> IF i = 1 /\ nd > 1 THEN 2 ELSE 1]
      [] mode = "shift" -> [i \in 1..nd |-> i + 1]
      [] OTHER -> Dates(nd)

ColumnModes == {"ok", "swap", "rename", "drop"}

MakeColumns(cols, mode) ==
    CASE mode = "swap" -> [j \in 1..Len(cols) |-> cols[Len(cols) + 1 - j]]
      [] mode = "rename" -> [j \in 1..Len(cols) |-> IF j = 1 THEN "C" ELSE cols[j]]
      [] mode = "drop" -> SubSeq(cols, 1, Len(cols) - 1)
      [] OTHER -> cols

BadPrices == {"none", "zero", "neg", "inf"}

PerturbPrices(nd, nc, r, pNaN, pBad) ==
    LET v0 == BasePriceValues(nd, nc)
        v1 == CASE pBad = "zero" -> SetCell(v0, nd + 1 - r, nc, Zero)
                [] pBad = "neg" -> SetCell(v0, nd + 1 - r, nc, Neg(One))
                [] pBad = "inf" -> SetCell(v0, nd + 1 - r, nc, Inf)
                [] OTHER -> v0
    IN  IF pNaN THEN SetCell(v1, r, 1, NaN) ELSE v1

Exposures == {"none", "limit", "over"}

PerturbWeights(nd, nc, r, wNaN, wNeg, wOver) ==
    LET v0 == BaseWeightValues(nd, nc)
        \* what row r lacks to sum to exactly 1 + TOL
        room == IF r \in 1..nd THEN Sub(Add(One, TOL), SumSeq(v0[r], nc)) ELSE Zero
        top == IF r \in 1..nd /\ nc >= 1 THEN Add(v0[r][1], room) ELSE Zero
        v1 == CASE wOver = "limit" -> SetCell(v0, r, 1, top)
                [] wOver = "over" -> SetCell(v0, r, 1, Add(top, TOL))
                [] OTHER -> v0
        v2 == IF wNeg THEN SetCell(v1, nd + 1 - r, nc, Neg(TOL)) ELSE v1
    IN  IF wNaN THEN SetCell(v2, r, 1, NaN) ELSE v2

\* Inputs that break any combination of the invariants, around one site row.
InitPerturbed ==
    \E nd \in 0..MaxDates, cols \in BaseColumns :
      \E r \in {1, nd} \ {0} :
        \E pNaN \in BOOLEAN, pBad \in BadPrices, pIdx \in {"ok", "rev", "dup", "revdup"},
           wNaN \in BOOLEAN, wNeg \in BOOLEAN, wOver \in Exposures,
           wIdx \in IndexModes \ {"revdup"}, wCols \in ColumnModes :
            LET wnd == IF wIdx = "short" /\ nd > 0 THEN nd - 1 ELSE nd
                wcols == MakeColumns(cols, wCols)
            IN  Constructed(
                    Table(MakeIndex(nd, pIdx), cols,
                          PerturbPrices(nd, Len(cols), r, pNaN, pBad)),
                    Table(MakeIndex(wnd, wIdx), wcols,
                          PerturbWeights(wnd, Len(wcols), r, wNaN, wNeg, wOver)))

Init == InitAligned \/ InitPerturbed

Next ==
    \/ Run
    \/ ReadReturns
    \/ ValidatePrices
    \/ ValidateWeights
    \/ ValidateMatchData

Spec == Init /\ [][Next]_vars

\* Tables of no asset with any index over the dates 1..MaxDates, for the
\* index check on its own.
IndexSeqs == UNION {[1..n -> 1..MaxDates] : n \in 0..MaxDates}

InitIndex ==
    \E pi \in IndexSeqs, wi \in IndexSeqs :
        Constructed(Table(pi, <<>>, [i \in 1..Len(pi) |-> <<>>]),
                    Table(wi, <<>>, [i \in 1..Len(wi) |-> <<>>]))

NextIndex ==
    \/ CheckCleanIndex("Prices")
    \/ CheckCleanIndex("Weights")

SpecIndex == InitIndex /\ [][NextIndex]_vars

-----------------------------------------------------------------------------
(* The stated invariants of the inputs, written from their definitions.    *)

StrictlyIncreasing(idx) == \A i, j \in 1..Len(idx) : i < j => idx[i] < idx[j]

HasDuplicates(idx) == \E i, j \in 1..Len(idx) : i # j /\ idx[i] = idx[j]

HasDescent(idx) == \E i \in 1..Len(idx) : i > 1 /\ idx[i] < idx[i - 1]

AllCells(data, P(_)) ==
    \A i \in 1..Len(data.values) : \A j \in 1..Len(data.values[i]) : P(data.values[i][j])

Present(x) == x # NaN
Positive(x) == x # NaN /\ x[1] > 0
NonNegative(x) == x # NaN /\ x[1] >= 0
Finite(x) == x[2] > 0

NoMissing(data) == AllCells(data, Present)

RECURSIVE Total(_)
\* The sum of the numbers of a row, left to right.
Total(row) == IF row = <<>> THEN Zero ELSE Add(Head(row), Total(Tail(row)))

\* Some date's weights sum to more than 1 + 1e-6.
OverExposed(w) ==
    \E i \in 1..Len(w.values) : Gt(Total(w.values[i]), Q(1000001, 1000000))

PricesValid(p) ==
    /\ StrictlyIncreasing(p.index)
    /\ NoMissing(p)
    /\ AllCells(p, Positive)

WeightsValid(w) ==
    /\ StrictlyIncreasing(w.index)
    /\ NoMissing(w)
    /\ AllCells(w, NonNegative)
    /\ ~OverExposed(w)

Aligned(p, w) == p.index = w.index /\ p.columns = w.columns

InputsValid == PricesValid(prices) /\ WeightsValid(weights) /\ Aligned(prices, weights)

\* The position of label x in the sequence s (0 when absent).
Pos(s, x) == IF \E i \in 1..Len(s) : s[i] = x
             THEN CHOOSE i \in 1..Len(s) : s[i] = x
             ELSE 0

\* (price[t, a] / price[t-1, a] - 1) * weight[u, a], for column positions pa, wa.
Paired(t, pa, u, wa) ==
    Mul(Sub(Div(prices.values[t][pa], prices.values[t - 1][pa]), One),
        weights.values[u][wa])

-----------------------------------------------------------------------------
\* C1: after a successful run(), every retained contribution[t, a] equals
\* (price[t, a] / price[t-1, a] - 1) * weight[t-1, a], t-1 being the date just
\* before t in the shared index; the weight of t itself never enters.
C1_NoLookAhead ==
    contributions # None =>
        LET c == contributions[1]
        IN  \A k \in 1..Len(c.index) : \A a \in 1..Len(c.columns) :
                LET t == Pos(prices.index, c.index[k])
                    pa == Pos(prices.columns, c.columns[a])
                    wa == Pos(weights.columns, c.columns[a])
                IN  /\ t >= 2 /\ pa >= 1 /\ wa >= 1
                    /\ weights.index[t - 1] = prices.index[t - 1]
                    /\ c.values[k][a] = Paired(t, pa, t - 1, wa)

\* A run kept two dates of two assets, and on one of them the weight of the
\* date itself would have given another contribution than the one stored.
C1_Witness ==
    /\ contributions # None
    /\ Len(contributions[1].index) >= 2
    /\ Len(contributions[1].columns) = 2
    /\ \E t \in 2..Len(prices.index) : \E a \in 1..2 :
           /\ Paired(t, a, t, a) # Paired(t, a, t - 1, a)
           /\ contributions[1].values[t - 1][a] = Paired(t, a, t - 1, a)

\* The series read after run(): every date except the first, in index order.
ReturnsAllButFirst ==
    /\ (lastCall = "run" => raised = NoError)
    /\ (lastCall = "returns" /\ history # "fresh" =>
            /\ raised = NoError
            /\ out # None
            /\ Len(out[1].index) = Len(prices.index) - 1
            /\ Len(out[1].values) = Len(prices.index) - 1
            /\ out[1].index = SubSeq(prices.index, 2, Len(prices.index)))

\* C2 as stated: for valid aligned tables of any size, the boundary sizes
\* included, run() then returns never raises and yields len(dates) - 1 entries.
C2_AnySize == InputsValid => ReturnsAllButFirst

\* C2: for valid aligned tables with at least one date, at least one asset and
\* only finite prices, run() then returns never raises and yields exactly
\* len(dates) - 1 entries: every date but the first, in index order.
C2_ReturnsLength ==
    (/\ InputsValid
     /\ Len(prices.index) >= 1
     /\ Len(prices.columns) >= 1
     /\ AllCells(prices, Finite)) => ReturnsAllButFirst

C2_Witness ==
    /\ InputsValid
    /\ Len(prices.index) >= 3
    /\ Len(prices.columns) = 2
    /\ AllCells(prices, Finite)
    /\ lastCall = "returns"
    /\ out # None
    /\ Len(out[1].index) = 2

\* C3: reading returns while no run() has completed successfully raises
\* EngineStateError and yields no series at all.
C3_ReturnsBeforeRun ==
    (lastCall = "returns" /\ history \in {"fresh", "failed"}) =>
        /\ raised = Err("EngineStateError", "contributions")
        /\ out = None

\* returns was read after a run() that aborted in validation.
C3_Witness ==
    /\ lastCall = "returns"
    /\ history = "failed"
    /\ raised.kind = "EngineStateError"

\* No sum at or below the limit triggers the exposure error.
ExposureOnlyWhenOver == raised.kind = "ExposureLimitError" => OverExposed(weights)

ExposureRaised ==
    /\ raised = Err("ExposureLimitError", "Weights")
    /\ contributions = None

\* C4 as stated: a weight row summing to more than 1 + 1e-6 makes run() raise
\* ExposureLimitError, whatever else the inputs violate.
C4_AnyInputs ==
    /\ (lastCall = "run" /\ OverExposed(weights) => ExposureRaised)
    /\ ExposureOnlyWhenOver

\* C4: when the price table is valid and the weight table has no missing value,
\* a clean index and no negative weight, a row summing to more than 1 + 1e-6
\* makes run() raise ExposureLimitError with the result slot unwritten; a row
\* summing to at most 1 + 1e-6 never triggers this error.
C4_Exposure ==
    /\ (/\ lastCall = "run"
        /\ OverExposed(weights)
        /\ PricesValid(prices)
        /\ NoMissing(weights)
        /\ StrictlyIncreasing(weights.index)
        /\ AllCells(weights, NonNegative)) => ExposureRaised
    /\ ExposureOnlyWhenOver

C4_Witness ==
    /\ lastCall = "run"
    /\ OverExposed(weights)
    /\ Len(weights.index) >= 2
    /\ raised.kind = "ExposureLimitError"
    /\ contributions = None

HasNonPositivePrice ==
    \E i \in 1..Len(prices.values) : \E j \in 1..Len(prices.values[i]) :
        prices.values[i][j] # NaN /\ prices.values[i][j][1] <= 0

PriceRaised ==
    /\ raised = Err("InvalidPriceError", "Prices")
    /\ contributions = None

\* C5 as stated: a zero or negative price anywhere makes run() raise
\* InvalidPriceError, whatever else the price table violates.
C5_AnyPrices == (lastCall = "run" /\ HasNonPositivePrice) => PriceRaised

\* C5: a price table with no missing value and a clean index that contains a
\* zero or negative value makes run() raise InvalidPriceError and compute
\* nothing: the result slot is not written.
C5_NonPositivePrice ==
    (/\ lastCall = "run"
     /\ HasNonPositivePrice
     /\ NoMissing(prices)
     /\ StrictlyIncreasing(prices.index)) => PriceRaised

C5_Witness ==
    /\ lastCall = "run"
    /\ HasNonPositivePrice
    /\ Len(prices.index) >= 2
    /\ raised.kind = "InvalidPriceError"
    /\ contributions = None

\* C6: two tables that each pass their own checks but differ in date index or
\* in asset columns (labels or order) make run() raise AlignmentError and
\* write no result.
C6_Alignment ==
    (/\ lastCall = "run"
     /\ PricesValid(prices)
     /\ WeightsValid(weights)
     /\ ~Aligned(prices, weights)) =>
        /\ raised.kind = "AlignmentError"
        /\ contributions = None

\* Same dates, same two assets in another order: run() refused them.
C6_Witness ==
    /\ lastCall = "run"
    /\ PricesValid(prices)
    /\ WeightsValid(weights)
    /\ prices.index = weights.index
    /\ Len(prices.index) >= 2
    /\ prices.columns = <<"A", "B">>
    /\ weights.columns = <<"B", "A">>
    /\ raised.kind = "AlignmentError"

\* The table the last _check_clean_index call looked at.
Checked == IF checks = << "Prices.clean_index" >> THEN prices ELSE weights

\* C7 as stated: IndexOrderError whenever the index is not strictly
\* increasing, IndexUniquenessError whenever it has duplicates.
C7_BothErrors ==
    lastCall = "check_clean_index" =>
        /\ (~StrictlyIncreasing(Checked.index) => raised.kind = "IndexOrderError")
        /\ (HasDuplicates(Checked.index) => raised.kind = "IndexUniquenessError")
        /\ (raised = NoError <=> StrictlyIncreasing(Checked.index))

\* C7: check_index_clean fails with IndexOrderError exactly when some
\* timestamp is smaller than the one before it, with IndexUniquenessError
\* exactly when no timestamp is smaller than the one before it but one is
\* repeated, and passes exactly when the index is strictly increasing.
C7_CleanIndex ==
    lastCall = "check_clean_index" =>
        /\ (raised.kind = "IndexOrderError" <=> HasDescent(Checked.index))
        /\ (raised.kind = "IndexUniquenessError" <=>
                ~HasDescent(Checked.index) /\ HasDuplicates(Checked.index))
        /\ (raised = NoError <=> StrictlyIncreasing(Checked.index))
        /\ raised.kind \in {"none", "IndexOrderError", "IndexUniquenessError"}

\* The check met an index that both descends and repeats a timestamp.
C7_Witness ==
    /\ lastCall = "check_clean_index"
    /\ HasDescent(Checked.index)
    /\ HasDuplicates(Checked.index)
    /\ raised.kind = "IndexOrderError"

PriceChecks == {"Prices.no_nan", "Prices.clean_index", "Prices.positive"}

WeightChecks ==
    {"Weights.no_nan", "Weights.clean_index", "Weights.not_negative",
     "Weights.net_exposure"}

Performed == {checks[i] : i \in 1..Len(checks)}

\* C8: run() checks the prices, then the weights, then the alignment, and
\* stops at the first failure: the error is that of the earliest violated
\* group, no later check runs and nothing is computed.
C8_CheckOrder ==
    lastCall = "run" =>
        IF ~PricesValid(prices)
        THEN /\ raised.name = "Prices"
             /\ Performed \subseteq PriceChecks
             /\ contributions = None
        ELSE IF ~WeightsValid(weights)
        THEN /\ raised.name = "Weights"
             /\ PriceChecks \subseteq Performed
             /\ Performed \subseteq PriceChecks \cup WeightChecks
             /\ contributions = None
        ELSE IF ~Aligned(prices, weights)
        THEN /\ raised.kind = "AlignmentError"
             /\ Performed = PriceChecks \cup WeightChecks \cup {"match_data"}
             /\ contributions = None
        ELSE /\ raised = NoError
             /\ contributions # None

\* All three groups were violated at once and run() reported the prices.
C8_Witness ==
    /\ lastCall = "run"
    /\ ~PricesValid(prices)
    /\ ~WeightsValid(weights)
    /\ ~Aligned(prices, weights)
    /\ raised.name = "Prices"
    /\ Performed \subseteq PriceChecks

\* C9: the return series has one value per date of the Contribution Matrix,
\* in the same order, each the sum across assets of that date's row.
C9_RowSums ==
    out # None =>
        /\ contributions # None
        /\ out[1].index = contributions[1].index
        /\ Len(out[1].values) = Len(contributions[1].index)
        /\ \A k \in 1..Len(out[1].values) :
               out[1].values[k] = Total(contributions[1].values[k])

\* Two dates of two assets were summed, the two assets contributing
\* different non-zero amounts on some date.
C9_Witness ==
    /\ out # None
    /\ Len(out[1].values) >= 2
    /\ Len(contributions[1].columns) = 2
    /\ \E k \in 1..Len(out[1].values) :
           /\ contributions[1].values[k][1] # Zero
           /\ contributions[1].values[k][2] # Zero
           /\ contributions[1].values[k][1] # contributions[1].values[k][2]

\* C10: the result slot changes only in a run() that passed validation; a
\* failing run(), a returns read or a validate call leaves it as it was; and
\* once a run() has succeeded the stored matrix keeps its value.
C10_SlotWrites ==
    [][ /\ (contributions' # contributions =>
                /\ lastCall' = "run"
                /\ raised' = NoError
                /\ contributions = None)
        /\ (lastCall' = "run" /\ raised' # NoError => contributions' = contributions)
        /\ (lastCall' # "run" => contributions' = contributions)
        /\ (contributions # None => contributions' = contributions) ]_vars

\* A second run() succeeded on an engine that already held a result of at
\* least one date.
C10_Witness ==
    /\ history = "rerun"
    /\ lastCall = "run"
    /\ contributions # None
    /\ Len(contributions[1].index) >= 1
    /\ Len(contributions[1].columns) >= 1

====
